---------------------------- MODULE Spec2Model ----------------------------
(***************************************************************************)
(* Hex Light Designer: the hex-lattice geometry and symmetry engine        *)
(* (utils/hexMath.js) and the state hook that drives it (useHexGrid.js).   *)
(*                                                                         *)
(* Representation of numbers.                                              *)
(*  - A vertex position is a pair of integers (x, y) counted in quarter     *)
(*    units of the hexagon size.  For pointy-top the real coordinates are   *)
(*    x * sqrt(3)*size/4 and y * size/4; for flat-top x * size/4 and        *)
(*    y * sqrt(3)*size/4.  Every corner, centre, midpoint and reflection    *)
(*    the code computes is an exact integer in these units; the floating    *)
(*    point error of the code (about 1e-13) is far below its tolerances     *)
(*    (0.001, 0.01, 0.1) and is not modelled.                               *)
(*  - Comparisons against a tolerance are evaluated exactly on the real     *)
(*    values (operator Below).                                              *)
(*  - Strings are sequences of UTF-16 code units, so that String(id),       *)
(*    the template `${a}|${b}`, split('|') and the string comparison `<`    *)
(*    are modelled by what they do.                                         *)
(***************************************************************************)
EXTENDS Integers, Sequences, FiniteSets, TLC

VARIABLES
    width, length, spacing,      \* useHexGrid state, inches
    pointyTop, mirrorMode,
    maxSegments, maxJoints2, maxJoints3,
    enabledEdgesArray,           \* the stored key list ('hexlight-edges')
    gridDimensions,              \* useMemo: getGridDimensions(...)
    vertices, allEdges,          \* useMemo: generateGrid(...)
    validEnabledEdges,           \* useMemo: the exposed enabled-edge set
    edgesToToggle,               \* the result of the last getMirroredEdges call
    last,                        \* the last operation, its argument, whether the key was
                                 \* in the stored list before it, and the exposed set
                                 \* before it
    steps,                       \* number of handler calls so far
    pc,                          \* "hook", "app", "draw", or the stage of the function
                                 \* pipeline
    designs,                     \* local storage item 'hexlight-designs': name -> record
    savedDesigns,                \* Controls state: the designs listed for load and delete
    savedFrom                    \* for every name saved in this run, the hook state that
                                 \* getDesignState read when it was last saved

vars == <<width, length, spacing, pointyTop, mirrorMode, maxSegments, maxJoints2,
          maxJoints3, enabledEdgesArray, gridDimensions, vertices, allEdges,
          validEnabledEdges, edgesToToggle, last, steps, pc, designs, savedDesigns,
          savedFrom>>

\* The state of the Save/Load section of Controls
storeVars == <<designs, savedDesigns, savedFrom>>

---------------------------------------------------------------------------
(* Program constants *)

pixelSize == 30

DedupTolDen == 100

NearestTolDen == 10

AxisTieTolDen == 1000

largeGapThresholdNum == 7

largeGapThresholdDen == 10

CharZero == 48

CharBar == 124

---------------------------------------------------------------------------
(* Arithmetic helpers *)

Abs(n) == IF n < 0 THEN -n ELSE n

\* Variant of Math.max that returns its second argument
SecondOf(a, b) == b

Max2(a, b) == IF a > b THEN a ELSE b

Min2(a, b) == IF a < b THEN a ELSE b

SetMin(S) == CHOOSE m \in S : \A n \in S : m <= n

SetMax(S) == CHOOSE m \in S : \A n \in S : m >= n

Range(s) == {s[i] : i \in 1..Len(s)}

\* The square of the real length of one lattice unit is AxisSq * size^2 / 16:
\* AxisSq = 3 on the axis that carries the factor sqrt(3), 1 on the other.
AxisSq(irrational) == IF irrational THEN 3 ELSE 1

\* Is the X axis the one that carries sqrt(3)?  (pointy-top: yes)
XIrrational(isPointy) == isPointy

YIrrational(isPointy) == ~isPointy

\* sq is a squared length in units of size^2/16.  sq * size^2/16 < (1/den)^2,
\* decided exactly: sq * K < 4 with K = (size/2)^2 * den^2  (size is even).
SqBelow(sq, size, den) ==
    LET K == (size \div 2) * (size \div 2) * den * den
    IN  sq <= (3 \div K)

\* sq * size^2/16 > (1/den)^2, decided exactly
SqAbove(sq, size, den) ==
    LET K == (size \div 2) * (size \div 2) * den * den
    IN  sq > (4 \div K)

\* |d| lattice units along one axis is less than 1/den real units
Below(d, irrational, size, den) == SqBelow(AxisSq(irrational) * d * d, size, den)

\* d lattice units along one axis is more than 1/den real units
Above(d, irrational, size, den) == d > 0 /\ SqAbove(AxisSq(irrational) * d * d, size, den)

\* Math.floor(n / (d * sqrt(3))) for integers n >= 0, d > 0:
\* the largest k >= 0 with 3 * k^2 * d^2 <= n^2.
FloorOverSqrt3(n, d) ==
    SetMax({k \in 0..(n \div d) : 3 * k * k * d * d <= n * n})

---------------------------------------------------------------------------
(* Strings *)

\* String(i) for a non-negative integer i
RECURSIVE StringOf(_)
StringOf(i) ==
    IF i < 10 THEN <<CharZero + i>>
    ELSE StringOf(i \div 10) \o <<CharZero + (i % 10)>>

\* a < b on JavaScript strings: lexicographic by code unit, a proper prefix first
RECURSIVE StrLess(_, _)
StrLess(a, b) ==
    IF b = <<>> THEN FALSE
    ELSE IF a = <<>> THEN TRUE
    ELSE IF Head(a) # Head(b) THEN Head(a) < Head(b)
    ELSE StrLess(Tail(a), Tail(b))

\* The value JavaScript calls undefined (no string holds the code unit -1)
Undefined == << -1 >>

\* s.split('|'): the pieces of s between the separators
RECURSIVE Split(_)
Split(s) ==
    LET bars == {i \in 1..Len(s) : s[i] = CharBar}
    IN  IF bars = {} THEN <<s>>
        ELSE LET i == SetMin(bars)
             IN  <<SubSeq(s, 1, i - 1)>> \o Split(SubSeq(s, i + 1, Len(s)))

\* Array element i (1-based here), undefined beyond the end
At(arr, i) == IF i <= Len(arr) THEN arr[i] ELSE Undefined

\* Variant of getEdgeKey that orders the keys as numbers
NumericKey(v1, v2) ==
    IF Len(v1) < Len(v2) \/ (Len(v1) = Len(v2) /\ StrLess(v1, v2))
    THEN v1 \o <<CharBar>> \o v2
    ELSE v2 \o <<CharBar>> \o v1

\* Variant of getEdgeKey that joins the two keys with no separator
GlueKeys(v1, v2) == IF StrLess(v1, v2) THEN v1 \o v2 ELSE v2 \o v1

\* Variant of getEdgeKey that keeps the order of its arguments
JoinKeys(v1, v2) == v1 \o <<CharBar>> \o v2

\* getEdgeKey(v1, v2): canonical key, the string-smaller vertex key first
getEdgeKey(v1, v2) ==
    IF StrLess(v1, v2) THEN v1 \o <<CharBar>> \o v2 ELSE v2 \o <<CharBar>> \o v1

---------------------------------------------------------------------------
(* Dimension solver *)

\* getGridDimensions(widthInches, lengthInches, pointSpacing, isPointy) for
\* positive integer inputs.  With e = pointSpacing:
\*   Math.floor((w - sqrt(3)e) / (sqrt(3)e))          = FloorOverSqrt3(w, e) - 1
\*   Math.floor((w - sqrt(3)e - sqrt(3)e/2) / (sqrt(3)e))
\*                                   = (FloorOverSqrt3(2w, e) - 3) \div 2
\*   Math.floor((l - 2e) / (1.5e))                    = (2l - 4e) \div (3e)
\* actualWidth and actualLength are counted in quarter units of e along
\* their axis (the axis unit of the lattice scaled from size to e).
getGridDimensions(widthInches, lengthInches, pointSpacing, isPointy) ==
    LET e == pointSpacing
    IN  IF isPointy
        THEN LET rows     == Max2(1, ((2 * lengthInches - 4 * e) \div (3 * e)) + 1)
                 colsEven == Max2(1, (FloorOverSqrt3(widthInches, e) - 1) + 1)
                 colsOdd  == IF rows > 1
                             THEN Max2(1, ((FloorOverSqrt3(2 * widthInches, e) - 3) \div 2) + 1)
                             ELSE colsEven
             IN  [cols |-> colsEven, colsOdd |-> colsOdd, rows |-> rows, rowsOdd |-> rows,
                  actualWidth  |-> (colsEven - 1) * 4 + 4,
                  actualLength |-> (rows - 1) * 6 + 8]
        ELSE LET cols     == Max2(1, ((2 * widthInches - 4 * e) \div (3 * e)) + 1)
                 rowsEven == Max2(1, (FloorOverSqrt3(lengthInches, e) - 1) + 1)
                 rowsOdd  == IF cols > 1
                             THEN Max2(1, ((FloorOverSqrt3(2 * lengthInches, e) - 3) \div 2) + 1)
                             ELSE rowsEven
             IN  [cols |-> cols, colsOdd |-> cols, rows |-> rowsEven, rowsOdd |-> rowsOdd,
                  actualWidth  |-> (cols - 1) * 6 + 8,
                  actualLength |-> (rowsEven - 1) * 4 + 4]

---------------------------------------------------------------------------
(* Lattice builder *)

\* a || b on counts: b when a is 0
OrElse(a, b) == IF a = 0 THEN b ELSE a

\* Concatenation of the sequences f[1], ..., f[n]
RECURSIVE Flatten(_, _)
Flatten(f, n) == IF n = 0 THEN <<>> ELSE Flatten(f, n - 1) \o f[n]

\* generateHexCenters: the centres in generation order (row-major for
\* pointy-top, column-major for flat-top)
generateHexCenters(cols, colsOdd, rows, rowsOdd, size, isPointy) ==
    IF isPointy
    THEN Flatten([r \in 1..rows |->
                    LET row     == r - 1
                        maxCols == IF row % 2 = 1 THEN OrElse(colsOdd, cols) ELSE cols
                    IN  [c \in 1..maxCols |->
                           LET col     == c - 1
                               xOffset == IF row % 2 = 1 THEN 2 ELSE 0
                           IN  [x |-> col * 4 + xOffset + 2, y |-> row * 6 + 4,
                                col |-> col, row |-> row]]], rows)
    ELSE Flatten([c \in 1..cols |->
                    LET col     == c - 1
                        maxRows == IF col % 2 = 1 THEN OrElse(rowsOdd, rows) ELSE rows
                    IN  [r \in 1..maxRows |->
                           LET row     == r - 1
                               yOffset == IF col % 2 = 1 THEN 2 ELSE 0
                           IN  [x |-> col * 6 + 4, y |-> row * 4 + yOffset + 2,
                                col |-> col, row |-> row]]], cols)

\* getHexVertices: corner i at angle startAngle + 60 i, radius size
\* pointy-top (-90, -30, 30, 90, 150, 210), flat-top (0, 60, ..., 300)
getHexVertices(cx, cy, size, isPointy) ==
    IF isPointy
    THEN << [x |-> cx,     y |-> cy - 4], [x |-> cx + 2, y |-> cy - 2],
            [x |-> cx + 2, y |-> cy + 2], [x |-> cx,     y |-> cy + 4],
            [x |-> cx - 2, y |-> cy + 2], [x |-> cx - 2, y |-> cy - 2] >>
    ELSE << [x |-> cx + 4, y |-> cy],     [x |-> cx + 2, y |-> cy + 2],
            [x |-> cx - 2, y |-> cy + 2], [x |-> cx - 4, y |-> cy],
            [x |-> cx - 2, y |-> cy - 2], [x |-> cx + 2, y |-> cy - 2] >>

\* Variant of the test of getVertexId that compares one coordinate only
SameYOnly(v, x, y, size, isPointy) ==
    Below(v.y - y, YIrrational(isPointy), size, DedupTolDen)

\* Variant of the test of getVertexId that merges nothing
NeverSame(v, x, y, size, isPointy) == FALSE

\* The test of getVertexId: both coordinate deltas below TOLERANCE
SameVertex(v, x, y, size, isPointy) ==
    /\ Below(v.x - x, XIrrational(isPointy), size, DedupTolDen)
    /\ Below(v.y - y, YIrrational(isPointy), size, DedupTolDen)

\* getVertexId on vertexList: the list after the call and the id returned
\* (ids are 0-based, the list is 1-based)
getVertexId(vertexList, x, y, size, isPointy) ==
    LET hits == {i \in 1..Len(vertexList) : SameVertex(vertexList[i], x, y, size, isPointy)}
    IN  IF hits # {}
        THEN [list |-> vertexList, id |-> SetMin(hits) - 1]
        ELSE [list |-> Append(vertexList, [x |-> x, y |-> y]), id |-> Len(vertexList)]

\* All corners of all hexagons, in generation order
AllCorners(centers, size, isPointy) ==
    Flatten([h \in 1..Len(centers) |->
               getHexVertices(centers[h].x, centers[h].y, size, isPointy)], Len(centers))

\* First pass of generateGrid: vertexList after getVertexId has been called,
\* in order, on corners lo..hi (the loop is split in halves to keep the
\* evaluation shallow; the order of the calls is the loop's)
RECURSIVE CollectVertices(_, _, _, _, _, _)
CollectVertices(vertexList, corners, lo, hi, size, isPointy) ==
    IF lo > hi THEN vertexList
    ELSE IF lo = hi
    THEN getVertexId(vertexList, corners[lo].x, corners[lo].y, size, isPointy).list
    ELSE LET mid  == (lo + hi) \div 2
             left == CollectVertices(vertexList, corners, lo, mid, size, isPointy)
         IN  IF Len(left) >= 0    \* the first half is evaluated before the second
             THEN CollectVertices(left, corners, mid + 1, hi, size, isPointy)
             ELSE left

\* Variant of the step of the second pass that pushes every side
AddEdgeAlways(edges, corners, vertexList, n, size, isPointy) ==
    LET base  == ((n - 1) \div 6) * 6
        i     == (n - 1) % 6
        c1    == corners[base + i + 1]
        c2    == corners[base + ((i + 1) % 6) + 1]
        key1  == StringOf(getVertexId(vertexList, c1.x, c1.y, size, isPointy).id)
        key2  == StringOf(getVertexId(vertexList, c2.x, c2.y, size, isPointy).id)
    IN  Append(edges, [key |-> getEdgeKey(key1, key2), v1 |-> key1, v2 |-> key2])

\* One step of the second pass: hexagon side n (side i of hexagon h is number
\* 6(h-1)+i+1 and joins corner i to corner (i+1) mod 6) is pushed unless its
\* key is already in the edge set
AddEdge(edges, corners, vertexList, n, size, isPointy) ==
    LET base  == ((n - 1) \div 6) * 6
        i     == (n - 1) % 6
        c1    == corners[base + i + 1]
        c2    == corners[base + ((i + 1) % 6) + 1]
        key1  == StringOf(getVertexId(vertexList, c1.x, c1.y, size, isPointy).id)
        key2  == StringOf(getVertexId(vertexList, c2.x, c2.y, size, isPointy).id)
        edgeKey == getEdgeKey(key1, key2)
    IN  IF \E j \in 1..Len(edges) : edges[j].key = edgeKey
        THEN edges
        ELSE Append(edges, [key |-> edgeKey, v1 |-> key1, v2 |-> key2])

\* Second pass of generateGrid over sides lo..hi
RECURSIVE CollectEdges(_, _, _, _, _, _, _)
CollectEdges(edges, corners, vertexList, lo, hi, size, isPointy) ==
    IF lo > hi THEN edges
    ELSE IF lo = hi THEN AddEdge(edges, corners, vertexList, lo, size, isPointy)
    ELSE LET mid  == (lo + hi) \div 2
             left == CollectEdges(edges, corners, vertexList, lo, mid, size, isPointy)
         IN  IF Len(left) >= 0    \* the first half is evaluated before the second
             THEN CollectEdges(left, corners, vertexList, mid + 1, hi, size, isPointy)
             ELSE left

\* generateGrid: vmap is the Map in insertion order, an entry per vertex
generateGrid(cols, colsOdd, rows, rowsOdd, size, isPointy) ==
    LET centers    == generateHexCenters(cols, colsOdd, rows, rowsOdd, size, isPointy)
        corners    == AllCorners(centers, size, isPointy)
        vertexList == CollectVertices(<<>>, corners, 1, Len(corners), size, isPointy)
    IN  [vertices |-> [i \in 1..Len(vertexList) |->
                         [key |-> StringOf(i - 1), x |-> vertexList[i].x, y |-> vertexList[i].y]],
         edges    |-> CollectEdges(<<>>, corners, vertexList, 1, Len(corners), size, isPointy)]

---------------------------------------------------------------------------
(* Mirror axis resolver *)

\* Array.from(set).sort((a, b) => a - b)
SortedSeq(S) ==
    [i \in 1..Cardinality(S) |-> CHOOSE x \in S : Cardinality({y \in S : y < x}) = i - 1]

\* The gaps between consecutive sorted coordinates
Gaps(sorted) == [i \in 1..(Len(sorted) - 1) |-> sorted[i + 1] - sorted[i]]

\* allGaps.length > 0 ? Math.max(...allGaps) : 0
MaxGap(gaps) == IF Len(gaps) > 0 THEN SetMax(Range(gaps)) ELSE 0

\* Variant of the loop that pushes every coordinate and every large-gap
\* midpoint on both axes
EveryPosition(sorted, verticesValid) ==
    LET maxGap == MaxGap(Gaps(sorted))
    IN  Flatten([i \in 1..Len(sorted) |->
                   <<sorted[i]>>
                   \o (IF /\ i < Len(sorted)
                          /\ largeGapThresholdDen * (sorted[i + 1] - sorted[i])
                               > maxGap * largeGapThresholdNum
                       THEN <<(sorted[i] + sorted[i + 1]) \div 2>>
                       ELSE <<>>)], Len(sorted))

\* The loop that fills validXPositions / validYPositions.  verticesValid is
\* isPointy for X and !isPointy for Y: on that axis every coordinate is
\* pushed and no midpoint; on the other axis only midpoints of large gaps.
ValidPositions(sorted, verticesValid) ==
    LET maxGap == MaxGap(Gaps(sorted))
    IN  Flatten([i \in 1..Len(sorted) |->
                   (IF verticesValid THEN <<sorted[i]>> ELSE <<>>)
                   \o (IF /\ i < Len(sorted)
                          /\ ~verticesValid
                          /\ largeGapThresholdDen * (sorted[i + 1] - sorted[i])
                               > maxGap * largeGapThresholdNum
                       THEN <<(sorted[i] + sorted[i + 1]) \div 2>>
                       ELSE <<>>)], Len(sorted))

\* Variant of the iteration in which a position at the same distance replaces
\* the best one
LastWinsStep(b, pos, center, irrational, size) ==
    LET dist == Abs(pos - center)
    IN  IF ~Above(dist - b.bestDist, irrational, size, AxisTieTolDen)
        THEN [best |-> pos, bestDist |-> dist]
        ELSE b

\* One iteration of the loop of findBestAxis; b = [best, bestDist]
BestAxisStep(b, pos, center, irrational, size) ==
    LET dist == Abs(pos - center)
    IN  IF Above(b.bestDist - dist, irrational, size, AxisTieTolDen)
        THEN [best |-> pos, bestDist |-> dist]
        ELSE IF Below(dist - b.bestDist, irrational, size, AxisTieTolDen) /\ pos < b.best
        THEN [best |-> pos, bestDist |-> b.bestDist]
        ELSE b

RECURSIVE BestAxisLoop(_, _, _, _, _, _, _)
BestAxisLoop(b, positions, lo, hi, center, irrational, size) ==
    IF lo > hi THEN b
    ELSE IF lo = hi THEN BestAxisStep(b, positions[lo], center, irrational, size)
    ELSE LET mid  == (lo + hi) \div 2
             left == BestAxisLoop(b, positions, lo, mid, center, irrational, size)
         IN  IF left.bestDist >= 0    \* the first half is evaluated before the second
             THEN BestAxisLoop(left, positions, mid + 1, hi, center, irrational, size)
             ELSE left

\* Variant of findBestAxis that falls back to 0
FallBackToZero(positions, center, irrational, size) ==
    IF Len(positions) = 0 THEN 0
    ELSE BestAxisLoop([best |-> positions[1], bestDist |-> Abs(positions[1] - center)],
                      positions, 1, Len(positions), center, irrational, size).best

\* findBestAxis(positions, center)
findBestAxis(positions, center, irrational, size) ==
    IF Len(positions) = 0 THEN center
    ELSE BestAxisLoop([best |-> positions[1], bestDist |-> Abs(positions[1] - center)],
                      positions, 1, Len(positions), center, irrational, size).best

\* Infinity, -Infinity and NaN, the values the code computes on an empty map
\* (Math.min over nothing, and (Infinity + -Infinity) / 2)
PosInfinity == "Infinity"

NegInfinity == "-Infinity"

NaN == "NaN"

\* calculateMirrorAxes(vmap, isPointy); size is the scale the map was
\* generated with
calculateMirrorAxes(vmap, isPointy, size) ==
    IF Len(vmap) = 0
    THEN [minX |-> PosInfinity, maxX |-> NegInfinity,
          minY |-> PosInfinity, maxY |-> NegInfinity,
          centerX |-> NaN, centerY |-> NaN]
    ELSE
    LET xCoords == {vmap[i].x : i \in 1..Len(vmap)}
        yCoords == {vmap[i].y : i \in 1..Len(vmap)}
        minX == SetMin(xCoords)
        maxX == SetMax(xCoords)
        minY == SetMin(yCoords)
        maxY == SetMax(yCoords)
        validXPositions == ValidPositions(SortedSeq(xCoords), isPointy)
        validYPositions == ValidPositions(SortedSeq(yCoords), ~isPointy)
        rawCenterX == (minX + maxX) \div 2
        rawCenterY == (minY + maxY) \div 2
    IN  [minX |-> minX, maxX |-> maxX, minY |-> minY, maxY |-> maxY,
         centerX |-> findBestAxis(validXPositions, rawCenterX, XIrrational(isPointy), size),
         centerY |-> findBestAxis(validYPositions, rawCenterY, YIrrational(isPointy), size)]

---------------------------------------------------------------------------
(* Mirror edge resolver *)

\* The value JavaScript calls null (no string holds the code unit -2)
Null == << -2 >>

\* !k for a string, null or undefined: true for null, undefined and ""
Falsy(k) == k = Null \/ k = Undefined \/ k = <<>>

\* vmap.has(key) and the position of the entry vmap.get(key) returns
MapHas(vmap, key) == \E i \in 1..Len(vmap) : vmap[i].key = key

MapGet(vmap, key) == vmap[CHOOSE i \in 1..Len(vmap) : vmap[i].key = key]

\* Math.hypot(v.x - targetX, v.y - targetY)^2 in units of size^2/16
DistSq(v, targetX, targetY, isPointy) ==
    AxisSq(XIrrational(isPointy)) * (v.x - targetX) * (v.x - targetX)
    + AxisSq(YIrrational(isPointy)) * (v.y - targetY) * (v.y - targetY)

\* findNearestVertex: the first entry at the least distance, if that
\* distance is below TOLERANCE; null otherwise
findNearestVertex(vmap, targetX, targetY, isPointy, size) ==
    IF Len(vmap) = 0 THEN Null
    ELSE LET minSq == SetMin({DistSq(vmap[i], targetX, targetY, isPointy) :
                                i \in 1..Len(vmap)})
             first == SetMin({i \in 1..Len(vmap) :
                                DistSq(vmap[i], targetX, targetY, isPointy) = minSq})
         IN  IF SqBelow(minSq, size, NearestTolDen) THEN vmap[first].key ELSE Null

\* Variant of findEdge that does not look the key up in edgeList
PairKey(edgeList, vKey1, vKey2) ==
    IF Falsy(vKey1) \/ Falsy(vKey2) THEN Null ELSE getEdgeKey(vKey1, vKey2)

\* findEdge: the canonical key of the pair if it is in edgeList, else null
findEdge(edgeList, vKey1, vKey2) ==
    IF Falsy(vKey1) \/ Falsy(vKey2) THEN Null
    ELSE LET key == getEdgeKey(vKey1, vKey2)
         IN  IF \E j \in 1..Len(edgeList) : edgeList[j].key = key THEN key ELSE Null

\* Variant of mirrorV that flips about the other axis value
FlipYAboutX(p, centerX, centerY) == [x |-> p.x, y |-> 2 * centerX - p.y]

\* Mirror functions
mirrorH(p, centerX, centerY) == [x |-> 2 * centerX - p.x, y |-> p.y]

mirrorV(p, centerX, centerY) == [x |-> p.x, y |-> 2 * centerY - p.y]

mirrorR(p, centerX, centerY) == [x |-> 2 * centerX - p.x, y |-> 2 * centerY - p.y]

\* The mirrored edge of (v1, v2) under one mirror function, or null
MirroredEdge(m1, m2, isPointy, vmap, edgeList, size) ==
    findEdge(edgeList,
             findNearestVertex(vmap, m1.x, m1.y, isPointy, size),
             findNearestVertex(vmap, m2.x, m2.y, isPointy, size))

\* results.add(mEdge) guarded by if (mEdge), on an insertion-ordered Set
AddResult(results, mEdge) ==
    IF Falsy(mEdge) \/ mEdge \in Range(results) THEN results ELSE Append(results, mEdge)

\* Variant of the initial result set that leaves the input key out
NoResults(edgeKey) == <<>>

\* new Set([edgeKey])
NewResults(edgeKey) == <<edgeKey>>

\* Which transforms a mode applies
UsesH(mode) == mode = "horizontal" \/ mode = "both"

UsesV(mode) == mode = "vertical" \/ mode = "both"

\* Variant of the third test that leaves 'both' out
RadialOnly(mode) == mode = "radial"

UsesR(mode) == mode = "both" \/ mode = "radial"

\* getMirroredEdges(edgeKey, mode, cols, rows, isPointy, vmap, edgeList)
\* on a vertex map generated at scale pixelSize; the result is Array.from(results)
getMirroredEdges(edgeKey, mode, cols, rows, isPointy, vmap, edgeList) ==
    IF mode = "none" THEN <<edgeKey>>
    ELSE LET parts == Split(edgeKey)
             v1Key == At(parts, 1)
             v2Key == At(parts, 2)
         IN  IF ~MapHas(vmap, v1Key) \/ ~MapHas(vmap, v2Key) THEN <<edgeKey>>
             ELSE LET axes == calculateMirrorAxes(vmap, isPointy, pixelSize)
                      cx == axes.centerX
                      cy == axes.centerY
                      v1 == MapGet(vmap, v1Key)
                      v2 == MapGet(vmap, v2Key)
                      hEdge == MirroredEdge(mirrorH(v1, cx, cy), mirrorH(v2, cx, cy),
                                            isPointy, vmap, edgeList, pixelSize)
                      vEdge == MirroredEdge(mirrorV(v1, cx, cy), mirrorV(v2, cx, cy),
                                            isPointy, vmap, edgeList, pixelSize)
                      rEdge == MirroredEdge(mirrorR(v1, cx, cy), mirrorR(v2, cx, cy),
                                            isPointy, vmap, edgeList, pixelSize)
                      r0 == NewResults(edgeKey)
                      r1 == IF UsesH(mode) THEN AddResult(r0, hEdge) ELSE r0
                      r2 == IF UsesV(mode) THEN AddResult(r1, vEdge) ELSE r1
                      r3 == IF UsesR(mode) THEN AddResult(r2, rEdge) ELSE r2
                  IN  r3

---------------------------------------------------------------------------
(* Statistics *)

\* The Map jointCounts after the loop over allEdges: an entry for every
\* vertex key that is v1 or v2 of an enabled edge, counting one for each such
\* end
JointCounts(enabledEdges, edgeList) ==
    LET enabled == {j \in 1..Len(edgeList) : edgeList[j].key \in enabledEdges}
        touched == {edgeList[j].v1 : j \in enabled} \cup {edgeList[j].v2 : j \in enabled}
    IN  [v \in touched |->
            Cardinality({j \in enabled : edgeList[j].v1 = v})
              + Cardinality({j \in enabled : edgeList[j].v2 = v})]

\* calculateStats(enabledEdges, allEdges): the returned object has the four
\* properties segments, joints2, joints3 and jointCounts, and no other
calculateStats(enabledEdges, edgeList) ==
    LET jointCounts == JointCounts(enabledEdges, edgeList)
    IN  [segments    |-> Cardinality(enabledEdges),
         joints2     |-> Cardinality({v \in DOMAIN jointCounts : jointCounts[v] = 2}),
         joints3     |-> Cardinality({v \in DOMAIN jointCounts : jointCounts[v] >= 3}),
         jointCounts |-> jointCounts]

---------------------------------------------------------------------------
(* The hook useHexGrid *)

\* Bounds of the model
MaxSteps == 2

MaxAppSteps == 3

MaxClicks == 3

\* Panel sizes in inches: all are in the range the form accepts
PanelWidths == {24, 40, 70, 90}

PanelLengths == {24, 40, 70, 90}

\* The sizes typed into the Create New form
FormWidths == {40, 70}

FormLengths == {40, 70}

FormSpacings == {18}

MirrorModes == {"none", "horizontal", "vertical", "both", "radial"}

\* Literal keys
Key(a, b) == StringOf(a) \o <<CharBar>> \o StringOf(b)

\* new Set(array) as an insertion-ordered sequence: first occurrences only
Dedup(arr) ==
    LET firsts == {i \in 1..Len(arr) : \A j \in 1..(i - 1) : arr[j] # arr[i]}
        order  == SortedSeq(firsts)
    IN  [n \in 1..Len(order) |-> arr[order[n]]]

\* current.delete(key) / current.add(key) on an insertion-ordered Set
SetDelete(current, key) == SelectSeq(current, LAMBDA k : k # key)

SetAdd(current, key) == IF key \in Range(current) THEN current ELSE Append(current, key)

\* The loop of the updater of toggleEdge over keys[1..n]
RECURSIVE ToggleLoop(_, _, _, _)
ToggleLoop(current, keys, n, isCurrentlyEnabled) ==
    IF n = 0 THEN current
    ELSE LET before == ToggleLoop(current, keys, n - 1, isCurrentlyEnabled)
         IN  IF isCurrentlyEnabled THEN SetDelete(before, keys[n]) ELSE SetAdd(before, keys[n])

\* Variant of the updater that flips every key of the group on its own
\* membership
FlipEachKey(prev, edgeKey, toToggle) ==
    LET current == Dedup(prev)
        kept    == SelectSeq(current, LAMBDA k : k \notin Range(toToggle))
        added   == SelectSeq(toToggle, LAMBDA k : k \notin Range(current))
    IN  kept \o Dedup(added)

\* Variant of the updater that, for an enabled key, deletes the clicked key
\* alone
ClickedOnlyOff(prev, edgeKey, toToggle) ==
    LET current == Dedup(prev)
    IN  IF edgeKey \in Range(current)
        THEN SetDelete(current, edgeKey)
        ELSE ToggleLoop(current, toToggle, Len(toToggle), FALSE)

\* The updater passed to setEnabledEdgesArray by toggleEdge
ToggleUpdate(prev, edgeKey, toToggle) ==
    LET current == Dedup(prev)
    IN  ToggleLoop(current, toToggle, Len(toToggle), edgeKey \in Range(current))

\* Variant of validEnabledEdges that filters nothing
AllStored(enabledEdges, edges) == enabledEdges

\* validEnabledEdges: the stored keys that are keys of allEdges
ValidEnabledEdges(enabledEdges, edges) ==
    LET validEdgeKeys == {edges[j].key : j \in 1..Len(edges)}
    IN  {key \in enabledEdges : key \in validEdgeKeys}

\* useMemo: stats, recomputed from the exposed set and the lattice
stats == calculateStats(validEnabledEdges, allEdges)

\* Variant of limitsExceeded that flags a statistic that has reached its
\* maximum
LimitsReached ==
    [segments |-> maxSegments > 0 /\ stats.segments >= maxSegments,
     joints2  |-> maxJoints2 > 0 /\ stats.joints2 >= maxJoints2,
     joints3  |-> maxJoints3 > 0 /\ stats.joints3 >= maxJoints3]

\* useMemo: limitsExceeded
limitsExceeded ==
    [segments |-> maxSegments > 0 /\ stats.segments > maxSegments,
     joints2  |-> maxJoints2 > 0 /\ stats.joints2 > maxJoints2,
     joints3  |-> maxJoints3 > 0 /\ stats.joints3 > maxJoints3]

\* The arguments of the generateGrid memo
GridDeps(dims, orientation) ==
    <<dims.cols, dims.colsOdd, dims.rows, dims.rowsOdd, pixelSize, orientation>>

\* The argument tuples of the generateGrid memo that the panel sizes give
MemoDeps ==
    { GridDeps(getGridDimensions(w, l, s, o), o) :
        w \in PanelWidths, l \in PanelLengths, s \in FormSpacings, o \in BOOLEAN }

\* useMemo(() => generateGrid(...), deps): the lattice of each argument
\* tuple, built once
GridMemo ==
    LET memo == [deps \in MemoDeps |->
                    generateGrid(deps[1], deps[2], deps[3], deps[4], deps[5], deps[6])]
    IN  IF memo = memo THEN memo ELSE memo

\* The render that follows a state update: every useMemo whose dependencies
\* changed is recomputed
Render ==
    /\ gridDimensions' = getGridDimensions(width', length', spacing', pointyTop')
    /\ LET grid == IF GridDeps(gridDimensions', pointyTop') = GridDeps(gridDimensions, pointyTop)
                   THEN [vertices |-> vertices, edges |-> allEdges]
                   ELSE GridMemo[GridDeps(gridDimensions', pointyTop')]
       IN  /\ vertices' = grid.vertices
           /\ allEdges' = grid.edges
    /\ validEnabledEdges' = ValidEnabledEdges(Range(enabledEdgesArray'), allEdges')

\* What local storage holds when the hook is constructed: the values an
\* earlier session left there
StoredSessions ==
    { [width |-> 40, length |-> 40, spacing |-> 18, pointyTop |-> TRUE,
       mirrorMode |-> "none", enabledEdges |-> <<>>],
      [width |-> 70, length |-> 40, spacing |-> 18, pointyTop |-> TRUE,
       mirrorMode |-> "horizontal", enabledEdges |-> <<Key(0, 1)>>],
      [width |-> 70, length |-> 40, spacing |-> 18, pointyTop |-> FALSE,
       mirrorMode |-> "both", enabledEdges |-> <<Key(0, 1), Key(8, 9)>>],
      [width |-> 40, length |-> 70, spacing |-> 18, pointyTop |-> TRUE,
       mirrorMode |-> "radial", enabledEdges |-> <<Key(4, 5)>>] }

\* Keys a caller may pass besides the keys of the lattice: unknown vertex
\* ids, a non-adjacent pair of known vertices, a key with no separator, and
\* the first edge with its vertex keys in the other order
ProbeKeys(vs, edges) ==
    { Key(Len(vs), Len(vs) + 1), Key(0, 2), StringOf(0) }
    \cup (IF Len(edges) > 0
          THEN LET parts == Split(edges[1].key)
               IN  {parts[2] \o <<CharBar>> \o parts[1]}
          ELSE {})

LatticeKeys(edges) == {edges[j].key : j \in 1..Len(edges)}

\* Nothing saved: the item 'hexlight-designs' is absent
NoStore == designs = <<>> /\ savedDesigns = <<>> /\ savedFrom = <<>>

\* The handlers can be called in any order; a run of the hook alone takes at
\* most MaxSteps calls, a run of the application at most MaxAppSteps, and a
\* drawing session at most MaxClicks
Callable ==
    \/ pc = "hook" /\ steps < MaxSteps
    \/ pc = "app" /\ steps < MaxAppSteps
    \/ pc = "draw" /\ steps < MaxClicks

Counted == steps + 1

NoOp == [op |-> "none", key |-> <<>>, wasEnabled |-> FALSE, before |-> {}]

Init ==
    \E st \in StoredSessions :
        /\ width = st.width
        /\ length = st.length
        /\ spacing = st.spacing
        /\ pointyTop = st.pointyTop
        /\ mirrorMode = st.mirrorMode
        /\ maxSegments = 0
        /\ maxJoints2 = 0
        /\ maxJoints3 = 0
        /\ enabledEdgesArray = st.enabledEdges
        /\ gridDimensions = getGridDimensions(width, length, spacing, pointyTop)
        /\ LET grid == GridMemo[GridDeps(gridDimensions, pointyTop)]
           IN  /\ vertices = grid.vertices
               /\ allEdges = grid.edges
        /\ validEnabledEdges = ValidEnabledEdges(Range(enabledEdgesArray), allEdges)
        /\ edgesToToggle = <<>>
        /\ last = NoOp
        /\ steps = 0
        /\ pc = "hook"
        /\ NoStore

\* toggleEdge(edgeKey)
ToggleEdge(edgeKey) ==
    /\ Callable
    /\ edgesToToggle' = getMirroredEdges(edgeKey, mirrorMode, gridDimensions.cols,
                                         gridDimensions.rows, pointyTop, vertices, allEdges)
    /\ enabledEdgesArray' = ToggleUpdate(enabledEdgesArray, edgeKey, edgesToToggle')
    /\ last' = [op |-> "toggleEdge", key |-> edgeKey,
                wasEnabled |-> edgeKey \in Range(enabledEdgesArray),
                before |-> validEnabledEdges]
    /\ steps' = Counted
    /\ UNCHANGED <<width, length, spacing, pointyTop, mirrorMode, maxSegments,
                   maxJoints2, maxJoints3, pc, storeVars>>
    /\ Render

\* clearAll()
ClearAll ==
    /\ Callable
    /\ enabledEdgesArray' = <<>>
    /\ last' = [op |-> "clearAll", key |-> <<>>, wasEnabled |-> FALSE,
                before |-> validEnabledEdges]
    /\ steps' = Counted
    /\ UNCHANGED <<width, length, spacing, pointyTop, mirrorMode, maxSegments,
                   maxJoints2, maxJoints3, edgesToToggle, pc, storeVars>>
    /\ Render

\* setMirrorMode(value), the radio buttons of Controls
SetMirrorMode(value) ==
    /\ Callable
    /\ mirrorMode' = value
    /\ last' = [op |-> "setMirrorMode", key |-> <<>>, wasEnabled |-> FALSE,
                before |-> validEnabledEdges]
    /\ steps' = Counted
    /\ UNCHANGED <<width, length, spacing, pointyTop, maxSegments, maxJoints2,
                   maxJoints3, enabledEdgesArray, edgesToToggle, pc, storeVars>>
    /\ Render

\* The click handler of "Create New" with a valid form
CreateNew(newWidth, newLength, newSpacing, newPointyTop) ==
    /\ Callable
    /\ pointyTop' = IF newPointyTop # pointyTop THEN newPointyTop ELSE pointyTop
    /\ width' = IF newWidth # width THEN newWidth ELSE width
    /\ length' = IF newLength # length THEN newLength ELSE length
    /\ spacing' = IF newSpacing # spacing THEN newSpacing ELSE spacing
    /\ enabledEdgesArray' = <<>>
    /\ last' = [op |-> "createNew", key |-> <<>>, wasEnabled |-> FALSE,
                before |-> validEnabledEdges]
    /\ steps' = Counted
    /\ UNCHANGED <<mirrorMode, maxSegments, maxJoints2, maxJoints3, edgesToToggle, pc,
                   storeVars>>
    /\ Render

\* design.f !== undefined
Defined(design, f) == f \in DOMAIN design

\* Design records a caller may load: a record of the current format, two
\* records of the old format (no orientation, mirror mode or edge list), and
\* a record that carries only an edge list
DesignInputs ==
    { [width |-> 70, length |-> 40, spacing |-> 18, pointyTop |-> TRUE,
       mirrorMode |-> "both", enabledEdges |-> <<Key(0, 1), Key(7, 8)>>,
       maxSegments |-> 0, maxJoints2 |-> 0, maxJoints3 |-> 0],
      [widthInches |-> 40, lengthInches |-> 40, pointSpacing |-> 18],
      [widthInches |-> 40, lengthInches |-> 70, pointSpacing |-> 18],
      [enabledEdges |-> <<Key(1, 2), Key(1, 2)>>] }

\* The body of loadDesignState(design): the nine conditional setters, and the
\* render that follows
ApplyDesign(design) ==
    /\ width' = IF Defined(design, "width") THEN design.width
                ELSE IF Defined(design, "widthInches") THEN design.widthInches
                ELSE width
    /\ length' = IF Defined(design, "length") THEN design.length
                 ELSE IF Defined(design, "lengthInches") THEN design.lengthInches
                 ELSE length
    /\ spacing' = IF Defined(design, "spacing") THEN design.spacing
                  ELSE IF Defined(design, "pointSpacing") THEN design.pointSpacing
                  ELSE spacing
    /\ pointyTop' = IF Defined(design, "pointyTop") THEN design.pointyTop ELSE pointyTop
    /\ mirrorMode' = IF Defined(design, "mirrorMode") THEN design.mirrorMode ELSE mirrorMode
    /\ enabledEdgesArray' = IF Defined(design, "enabledEdges") THEN design.enabledEdges
                            ELSE enabledEdgesArray
    /\ maxSegments' = IF Defined(design, "maxSegments") THEN design.maxSegments ELSE maxSegments
    /\ maxJoints2' = IF Defined(design, "maxJoints2") THEN design.maxJoints2 ELSE maxJoints2
    /\ maxJoints3' = IF Defined(design, "maxJoints3") THEN design.maxJoints3 ELSE maxJoints3
    /\ Render

\* loadDesignState(design)
LoadDesignState(design) ==
    /\ Callable
    /\ ApplyDesign(design)
    /\ last' = [op |-> "loadDesignState", key |-> <<>>, wasEnabled |-> FALSE,
                before |-> validEnabledEdges,
                deps |-> GridDeps(gridDimensions, pointyTop)]
    /\ steps' = Counted
    /\ UNCHANGED <<edgesToToggle, pc, storeVars>>

Next ==
    \/ \E edgeKey \in LatticeKeys(allEdges) \cup ProbeKeys(vertices, allEdges) :
           ToggleEdge(edgeKey)
    \/ ClearAll
    \/ \E value \in MirrorModes : SetMirrorMode(value)
    \/ \E w \in FormWidths, l \in FormLengths, s \in FormSpacings, o \in BOOLEAN :
           CreateNew(w, l, s, o)
    \/ \E design \in DesignInputs : LoadDesignState(design)

Spec == Init /\ [][Next]_vars

---------------------------------------------------------------------------
(* The function pipeline: panel size -> counts -> lattice -> mirror group *)

NoDimensions ==
    [cols |-> 0, colsOdd |-> 0, rows |-> 0, rowsOdd |-> 0,
     actualWidth |-> 0, actualLength |-> 0]

\* Sizes below the range of the form, and below the size of one hexagon
TinySizes == {1}

\* Spacings the functions are called with: the default and the largest the
\* form accepts
GridSpacings == {18, 48}

GridInit ==
    /\ width \in PanelWidths \cup TinySizes
    /\ length \in PanelLengths \cup TinySizes
    /\ spacing \in GridSpacings
    /\ pointyTop \in BOOLEAN
    /\ mirrorMode = "none"
    /\ maxSegments = 0
    /\ maxJoints2 = 0
    /\ maxJoints3 = 0
    /\ enabledEdgesArray = <<>>
    /\ gridDimensions = NoDimensions
    /\ vertices = <<>>
    /\ allEdges = <<>>
    /\ validEnabledEdges = {}
    /\ edgesToToggle = <<>>
    /\ last = NoOp
    /\ steps = 0
    /\ pc = "input"
    /\ NoStore

\* getGridDimensions(width, length, spacing, pointyTop)
SolveDimensions ==
    /\ pc = "input"
    /\ gridDimensions' = getGridDimensions(width, length, spacing, pointyTop)
    /\ pc' = "solved"
    /\ UNCHANGED <<width, length, spacing, pointyTop, mirrorMode, maxSegments,
                   maxJoints2, maxJoints3, enabledEdgesArray, vertices, allEdges,
                   validEnabledEdges, edgesToToggle, last, steps, storeVars>>

\* generateGrid(cols, colsOdd, rows, rowsOdd, pixelSize, pointyTop)
BuildLattice ==
    /\ pc = "solved"
    /\ LET grid == generateGrid(gridDimensions.cols, gridDimensions.colsOdd,
                                gridDimensions.rows, gridDimensions.rowsOdd,
                                pixelSize, pointyTop)
       IN  /\ vertices' = grid.vertices
           /\ allEdges' = grid.edges
    /\ pc' = "built"
    /\ UNCHANGED <<width, length, spacing, pointyTop, mirrorMode, maxSegments,
                   maxJoints2, maxJoints3, enabledEdgesArray, gridDimensions,
                   validEnabledEdges, edgesToToggle, last, steps, storeVars>>

\* getMirroredEdges(edgeKey, mode, cols, rows, pointyTop, vertices, allEdges)
ResolveMirror(edgeKey, mode) ==
    /\ pc = "built"
    /\ mirrorMode' = mode
    /\ edgesToToggle' = getMirroredEdges(edgeKey, mode, gridDimensions.cols,
                                         gridDimensions.rows, pointyTop, vertices, allEdges)
    /\ last' = [op |-> "getMirroredEdges", key |-> edgeKey, wasEnabled |-> FALSE,
                before |-> {}]
    /\ pc' = "mirrored"
    /\ UNCHANGED <<width, length, spacing, pointyTop, maxSegments, maxJoints2,
                   maxJoints3, enabledEdgesArray, gridDimensions, vertices, allEdges,
                   validEnabledEdges, steps, storeVars>>

GridNext ==
    \/ SolveDimensions
    \/ BuildLattice
    \/ \E edgeKey \in LatticeKeys(allEdges) \cup ProbeKeys(vertices, allEdges),
          mode \in MirrorModes :
           ResolveMirror(edgeKey, mode)

GridSpec == GridInit /\ [][GridNext]_vars

---------------------------------------------------------------------------
(* generateGrid and the mirror functions called directly: on any counts, and
   the mirror functions on vertex maps that are no generated lattice *)

MaxCount == 2

\* Vertex maps with no edge list: empty, a single vertex, two vertices on one
\* horizontal line, two vertices on one vertical line
DegenerateMaps ==
    { <<>>,
      <<[key |-> StringOf(0), x |-> 4, y |-> 2]>>,
      <<[key |-> StringOf(0), x |-> 0, y |-> 2], [key |-> StringOf(1), x |-> 4, y |-> 2]>>,
      <<[key |-> StringOf(0), x |-> 2, y |-> 0], [key |-> StringOf(1), x |-> 2, y |-> 4]>> }

LatticeInit ==
    /\ width = 0
    /\ length = 0
    /\ spacing \in FormSpacings
    /\ pointyTop \in BOOLEAN
    /\ mirrorMode = "none"
    /\ maxSegments = 0
    /\ maxJoints2 = 0
    /\ maxJoints3 = 0
    /\ enabledEdgesArray = <<>>
    /\ allEdges = <<>>
    /\ validEnabledEdges = {}
    /\ edgesToToggle = <<>>
    /\ last = NoOp
    /\ steps = 0
    /\ NoStore
    /\ \/ /\ \E c \in 1..MaxCount, co \in 1..MaxCount, r \in 1..MaxCount, ro \in 1..MaxCount :
                gridDimensions = [cols |-> c, colsOdd |-> co, rows |-> r, rowsOdd |-> ro,
                                  actualWidth |-> 0, actualLength |-> 0]
          /\ vertices = <<>>
          /\ pc = "solved"
       \/ /\ gridDimensions = NoDimensions
          /\ vertices \in DegenerateMaps
          /\ pc = "built"

LatticeNext ==
    \/ BuildLattice
    \/ \E edgeKey \in LatticeKeys(allEdges) \cup ProbeKeys(vertices, allEdges)
                       \cup {Key(0, 0), Key(0, 1)},
          mode \in {"horizontal", "both"} :
           ResolveMirror(edgeKey, mode)

LatticeSpec == LatticeInit /\ [][LatticeNext]_vars

---------------------------------------------------------------------------
(* The application: the Limits and Save/Load sections of Controls on top of
   the hook.  The item 'hexlight-designs' is a JSON object; the values of a
   design record are finite numbers, booleans, strings and arrays of strings,
   which JSON.stringify and JSON.parse give back as they were, so the item is
   held as the object it encodes.  The writes to local storage succeed. *)

CharSpace == 32

minDim == 24

maxDim == 600

minSpacing == 6

maxSpacing == 48

\* The text 'Design ' of the default name
DesignPrefix == <<68, 101, 115, 105, 103, 110, CharSpace>>

\* s.trim(), for texts whose only white space is the space character
RECURSIVE Trim(_)
Trim(s) ==
    IF s = <<>> THEN s
    ELSE IF Head(s) = CharSpace THEN Trim(Tail(s))
    ELSE IF s[Len(s)] = CharSpace THEN Trim(SubSeq(s, 1, Len(s) - 1))
    ELSE s

\* saveName.trim() || `Design ${Object.keys(savedDesigns).length + 1}`
SaveNameOf(typed, saved) ==
    IF Trim(typed) # <<>> THEN Trim(typed)
    ELSE DesignPrefix \o StringOf(Cardinality(DOMAIN saved) + 1)

\* getDesignState()
getDesignState ==
    [width |-> width, length |-> length, spacing |-> spacing, pointyTop |-> pointyTop,
     mirrorMode |-> mirrorMode, enabledEdges |-> enabledEdgesArray,
     maxSegments |-> maxSegments, maxJoints2 |-> maxJoints2, maxJoints3 |-> maxJoints3]

\* Variant of saveDesign that keeps the record a name already has
KeepFirstSaved(store, name, design, now) ==
    IF name \in DOMAIN store THEN store
    ELSE [n \in DOMAIN store \cup {name} |->
            IF n = name
            THEN [f \in DOMAIN design \cup {"savedAt"} |->
                    IF f = "savedAt" THEN now ELSE design[f]]
            ELSE store[n]]

\* saveDesign(name, design): designs[name] = {...design, savedAt}; the value
\* is the new content of the item
saveDesign(store, name, design, now) ==
    [n \in DOMAIN store \cup {name} |->
        IF n = name
        THEN [f \in DOMAIN design \cup {"savedAt"} |->
                IF f = "savedAt" THEN now ELSE design[f]]
        ELSE store[n]]

\* deleteDesign(name): delete designs[name]
deleteDesign(store, name) == [n \in DOMAIN store \ {name} |-> store[n]]

\* loadDesigns()
loadDesigns == designs

\* The digits of a text of decimal digits, as a number
RECURSIVE DigitsValue(_)
DigitsValue(text) ==
    IF text = <<>> THEN 0
    ELSE 10 * DigitsValue(SubSeq(text, 1, Len(text) - 1)) + (text[Len(text)] - CharZero)

\* parseInt(e.target.value) || 0, for a text of decimal digits or the empty
\* text (parseInt gives NaN for the empty text)
ParseLimit(text) == IF text = <<>> THEN 0 ELSE DigitsValue(text)

\* isValidDimension(value, min, max) on a number
isValidDimension(value, min, max) == value >= min /\ value <= max

\* The hook state that a design record carries
HookState ==
    <<width, length, spacing, pointyTop, mirrorMode, enabledEdgesArray,
      maxSegments, maxJoints2, maxJoints3>>

\* What local storage holds for the hook when the application is mounted
AppSessions ==
    { [width |-> 40, length |-> 40, spacing |-> 18, pointyTop |-> TRUE,
       mirrorMode |-> "none", enabledEdges |-> <<>>,
       maxSegments |-> 0, maxJoints2 |-> 0, maxJoints3 |-> 0],
      [width |-> 70, length |-> 40, spacing |-> 18, pointyTop |-> TRUE,
       mirrorMode |-> "none",
       enabledEdges |-> <<Key(0, 1), Key(1, 2), Key(1, 6), Key(2, 3), Key(2, 9)>>,
       maxSegments |-> 4, maxJoints2 |-> 1, maxJoints3 |-> 1] }

\* The name 'old'
OldName == <<111, 108, 100>>

\* What the item 'hexlight-designs' holds when the application is mounted:
\* nothing; the records of two saves with a blank name; a record of the
\* earlier format (widthInches, lengthInches, pointSpacing) whose width is
\* below the smallest the form accepts
StoredDesigns ==
    { <<>>,
      [n \in {DesignPrefix \o StringOf(1), DesignPrefix \o StringOf(2)} |->
         [width |-> 40, length |-> 40, spacing |-> 18, pointyTop |-> TRUE,
          mirrorMode |-> "none",
          enabledEdges |-> IF n = DesignPrefix \o StringOf(1) THEN <<>> ELSE <<Key(0, 1)>>,
          maxSegments |-> 0, maxJoints2 |-> 0, maxJoints3 |-> 0, savedAt |-> 0]],
      [n \in {OldName} |->
         [widthInches |-> 12, lengthInches |-> 40, pointSpacing |-> 18,
          enabledEdges |-> <<Key(0, 1)>>, savedAt |-> 0]] }

\* The texts typed into the name field: nothing, and 'a' followed by a space
TypedNames == { <<>>, <<97, CharSpace>> }

\* The texts typed into a limit field: nothing, and '1'
LimitTexts == { <<>>, StringOf(1) }

\* The edges clicked
ClickedKeys(edges) == { edges[1].key, edges[3].key }

AppInit ==
    \E st \in AppSessions, store \in StoredDesigns :
        /\ width = st.width
        /\ length = st.length
        /\ spacing = st.spacing
        /\ pointyTop = st.pointyTop
        /\ mirrorMode = st.mirrorMode
        /\ maxSegments = st.maxSegments
        /\ maxJoints2 = st.maxJoints2
        /\ maxJoints3 = st.maxJoints3
        /\ enabledEdgesArray = st.enabledEdges
        /\ gridDimensions = getGridDimensions(width, length, spacing, pointyTop)
        /\ LET grid == GridMemo[GridDeps(gridDimensions, pointyTop)]
           IN  /\ vertices = grid.vertices
               /\ allEdges = grid.edges
        /\ validEnabledEdges = ValidEnabledEdges(Range(enabledEdgesArray), allEdges)
        /\ edgesToToggle = <<>>
        /\ last = NoOp
        /\ steps = 0
        /\ pc = "app"
        /\ designs = store
        /\ savedDesigns = store
        /\ savedFrom = <<>>

\* onChange of the three limit fields
SetMaxSegments(text) ==
    /\ Callable
    /\ maxSegments' = ParseLimit(text)
    /\ last' = [op |-> "setMaxSegments", key |-> text, wasEnabled |-> FALSE,
                before |-> validEnabledEdges]
    /\ steps' = Counted
    /\ UNCHANGED <<width, length, spacing, pointyTop, mirrorMode, maxJoints2, maxJoints3,
                   enabledEdgesArray, edgesToToggle, pc, storeVars>>
    /\ Render

SetMaxJoints2(text) ==
    /\ Callable
    /\ maxJoints2' = ParseLimit(text)
    /\ last' = [op |-> "setMaxJoints2", key |-> text, wasEnabled |-> FALSE,
                before |-> validEnabledEdges]
    /\ steps' = Counted
    /\ UNCHANGED <<width, length, spacing, pointyTop, mirrorMode, maxSegments, maxJoints3,
                   enabledEdgesArray, edgesToToggle, pc, storeVars>>
    /\ Render

SetMaxJoints3(text) ==
    /\ Callable
    /\ maxJoints3' = ParseLimit(text)
    /\ last' = [op |-> "setMaxJoints3", key |-> text, wasEnabled |-> FALSE,
                before |-> validEnabledEdges]
    /\ steps' = Counted
    /\ UNCHANGED <<width, length, spacing, pointyTop, mirrorMode, maxSegments, maxJoints2,
                   enabledEdgesArray, edgesToToggle, pc, storeVars>>
    /\ Render

\* handleSave, with the text of the name field; the clock is the number of
\* handler calls so far
HandleSave(typed) ==
    /\ Callable
    /\ LET name == SaveNameOf(typed, savedDesigns)
       IN  /\ designs' = saveDesign(designs, name, getDesignState, steps + 1)
           /\ savedFrom' = [n \in DOMAIN savedFrom \cup {name} |->
                               IF n = name THEN HookState ELSE savedFrom[n]]
           /\ last' = [op |-> "handleSave", key |-> name, wasEnabled |-> FALSE,
                       before |-> validEnabledEdges, typed |-> typed,
                       present |-> name \in DOMAIN designs]
    /\ savedDesigns' = designs'
    /\ steps' = Counted
    /\ UNCHANGED <<width, length, spacing, pointyTop, mirrorMode, maxSegments, maxJoints2,
                   maxJoints3, enabledEdgesArray, gridDimensions, vertices, allEdges,
                   validEnabledEdges, edgesToToggle, pc>>

\* handleLoad(name), for a name of the list
HandleLoad(name) ==
    /\ Callable
    /\ name \in DOMAIN savedDesigns
    /\ IF name \in DOMAIN loadDesigns
       THEN ApplyDesign(loadDesigns[name])
       ELSE UNCHANGED <<width, length, spacing, pointyTop, mirrorMode, maxSegments,
                        maxJoints2, maxJoints3, enabledEdgesArray, gridDimensions,
                        vertices, allEdges, validEnabledEdges>>
    /\ last' = [op |-> "handleLoad", key |-> name, wasEnabled |-> FALSE,
                before |-> validEnabledEdges]
    /\ steps' = Counted
    /\ UNCHANGED <<edgesToToggle, pc, storeVars>>

\* handleDelete(name), for a name of the list
HandleDelete(name) ==
    /\ Callable
    /\ name \in DOMAIN savedDesigns
    /\ designs' = deleteDesign(designs, name)
    /\ savedDesigns' = designs'
    /\ savedFrom' = [n \in DOMAIN savedFrom \ {name} |-> savedFrom[n]]
    /\ last' = [op |-> "handleDelete", key |-> name, wasEnabled |-> FALSE,
                before |-> validEnabledEdges]
    /\ steps' = Counted
    /\ UNCHANGED <<width, length, spacing, pointyTop, mirrorMode, maxSegments, maxJoints2,
                   maxJoints3, enabledEdgesArray, gridDimensions, vertices, allEdges,
                   validEnabledEdges, edgesToToggle, pc>>

AppNext ==
    \/ \E edgeKey \in ClickedKeys(allEdges) : ToggleEdge(edgeKey)
    \/ SetMirrorMode("both")
    \/ CreateNew(70, 40, 18, FALSE)
    \/ \E text \in LimitTexts : SetMaxSegments(text)
    \/ \E text \in LimitTexts : SetMaxJoints2(text)
    \/ \E text \in LimitTexts : SetMaxJoints3(text)
    \/ \E typed \in TypedNames : HandleSave(typed)
    \/ \E name \in DOMAIN savedDesigns : HandleLoad(name)
    \/ \E name \in DOMAIN savedDesigns : HandleDelete(name)

AppSpec == AppInit /\ [][AppNext]_vars

---------------------------------------------------------------------------
(* A drawing session: the lattice and the mirror mode stay as they are at the
   start, the design starts empty, and the user clicks edges of the lattice *)

\* The panels drawn on: one hexagon (40 x 40), two hexagons side by side
\* (70 x 40 pointy-top), two hexagons in offset columns (70 x 40 flat-top),
\* two hexagons in offset rows (40 x 70 pointy-top); mode 'none', in which
\* every click is independent of the others, on the single hexagon only
DrawWidths == {40, 70}

DrawLengths == {40, 70}

DrawInit ==
    /\ width \in DrawWidths
    /\ length \in DrawLengths
    /\ width = 40 \/ length = 40
    /\ spacing \in FormSpacings
    /\ pointyTop \in BOOLEAN
    /\ pointyTop \/ length = 40
    /\ mirrorMode \in MirrorModes
    /\ mirrorMode = "none" => (width = 40 /\ length = 40)
    /\ maxSegments = 0
    /\ maxJoints2 = 0
    /\ maxJoints3 = 0
    /\ enabledEdgesArray = <<>>
    /\ gridDimensions = getGridDimensions(width, length, spacing, pointyTop)
    /\ LET grid == GridMemo[GridDeps(gridDimensions, pointyTop)]
       IN  /\ vertices = grid.vertices
           /\ allEdges = grid.edges
    /\ validEnabledEdges = {}
    /\ edgesToToggle = <<>>
    /\ last = NoOp
    /\ steps = 0
    /\ pc = "draw"
    /\ NoStore

DrawNext == \E edgeKey \in LatticeKeys(allEdges) : ToggleEdge(edgeKey)

DrawSpec == DrawInit /\ [][DrawNext]_vars

---------------------------------------------------------------------------
(* Properties *)

\* The lattice of the scenario "pointy-top, 2 columns x 2 rows"
TwoByTwoPointy ==
    /\ pc \in {"built", "mirrored"}
    /\ pointyTop
    /\ gridDimensions.cols = 2 /\ gridDimensions.colsOdd = 2
    /\ gridDimensions.rows = 2 /\ gridDimensions.rowsOdd = 2

\* The lattice of the scenario "single hexagon, pointy-top"
SingleHexPointy ==
    /\ pc \in {"built", "mirrored"}
    /\ pointyTop
    /\ gridDimensions.cols = 1 /\ gridDimensions.colsOdd = 1
    /\ gridDimensions.rows = 1 /\ gridDimensions.rowsOdd = 1

\* The position of the vertex with a given key
VertexAt(key) == CHOOSE v \in Range(vertices) : v.key = key

PointOf(key) == <<VertexAt(key).x, VertexAt(key).y>>

\* The reflections, stated on points: H flips x about centerX, V flips y
\* about centerY, HV does both (a rotation by 180 degrees)
Reflect(q, t, axes) ==
    << IF t \in {"H", "HV"} THEN 2 * axes.centerX - q[1] ELSE q[1],
       IF t \in {"V", "HV"} THEN 2 * axes.centerY - q[2] ELSE q[2] >>

\* The lattice edges whose end points are the images under t of the end
\* points of the lattice edge k (none or one)
Images(k, t) ==
    LET axes   == calculateMirrorAxes(vertices, pointyTop, pixelSize)
        ends   == {PointOf(Split(k)[1]), PointOf(Split(k)[2])}
        target == {Reflect(q, t, axes) : q \in ends}
    IN  {allEdges[j].key : j \in {i \in 1..Len(allEdges) :
            {PointOf(allEdges[i].v1), PointOf(allEdges[i].v2)} = target}}

\* The transform set of each mode
Transforms(mode) ==
    CASE mode = "none"       -> {}
      [] mode = "horizontal" -> {"H"}
      [] mode = "vertical"   -> {"V"}
      [] mode = "radial"     -> {"HV"}
      [] mode = "both"       -> {"H", "V", "HV"}

\* The mirror group of the last key under another mode, same lattice
GroupUnder(mode) ==
    Range(getMirroredEdges(last.key, mode, gridDimensions.cols, gridDimensions.rows,
                           pointyTop, vertices, allEdges))

\* The real extent of the vertices along each axis is at most the requested
\* size: extent = d * spacing/4 * (sqrt(3) on the axis that carries it),
\* compared on squares
BoxWithin(vmap, e, w, l, isPointy) ==
    LET dx == SetMax({vmap[i].x : i \in 1..Len(vmap)}) - SetMin({vmap[i].x : i \in 1..Len(vmap)})
        dy == SetMax({vmap[i].y : i \in 1..Len(vmap)}) - SetMin({vmap[i].y : i \in 1..Len(vmap)})
    IN  /\ AxisSq(XIrrational(isPointy)) * dx * dx * e * e <= 16 * w * w
        /\ AxisSq(YIrrational(isPointy)) * dy * dy * e * e <= 16 * l * l

\* A step of the hook that is a call of toggleEdge
ToggleStep == steps' = steps + 1 /\ last'.op = "toggleEdge"

\* C1 (as stated): when toggleEdge(k) is called twice in a row for a lattice
\* edge key k, the exposed enabled-edge set after the second call equals the
\* set before the first call.
C1_ToggleTwiceRestores ==
    [][ ( /\ last.op = "toggleEdge"
          /\ ToggleStep
          /\ last'.key = last.key
          /\ last.key \in LatticeKeys(allEdges) )
        => validEnabledEdges' = last.before ]_vars

\* C1: a state after a toggle whose mirror group was mixed: the clicked key
\* was disabled while another key of its group was already enabled.
C1_MixedGroupToggled ==
    /\ last.op = "toggleEdge"
    /\ last.key \in LatticeKeys(allEdges)
    /\ ~last.wasEnabled
    /\ Range(edgesToToggle) \cap last.before # {}

\* C2 (as stated): the bounding box of the lattice built from the counts of
\* getGridDimensions is no wider than the requested width and no longer than
\* the requested length.
C2_BoundingBoxWithinRequest ==
    pc \in {"built", "mirrored"} => BoxWithin(vertices, spacing, width, length, pointyTop)

\* C2: a built lattice whose even rows fit the requested width while the
\* lattice does not.
C2_OddRowOverhangs ==
    /\ pc = "built"
    /\ pointyTop
    /\ 3 * 16 * spacing * spacing * gridDimensions.cols * gridDimensions.cols
         <= 16 * width * width
    /\ ~BoxWithin(vertices, spacing, width, length, pointyTop)

\* The mirror group of each edge of the single pointy-top hexagon in mode
\* 'both': vertex 0 is the top corner, the ids go clockwise
SingleHexGroup(k) ==
    CASE k \in {Key(0, 1), Key(0, 5), Key(2, 3), Key(3, 4)}
           -> {Key(0, 1), Key(0, 5), Key(2, 3), Key(3, 4)}
      [] k \in {Key(1, 2), Key(4, 5)}
           -> {Key(1, 2), Key(4, 5)}

\* C3 (amended): in the single pointy-top hexagon, getMirroredEdges in mode
\* 'both' returns the input key and its images inside the hexagon: four keys
\* for each of the four slanted edges, two keys for each of the two vertical
\* edges, the input key first.
C3_SingleHexagonGroups ==
    ( /\ SingleHexPointy
      /\ pc = "mirrored"
      /\ mirrorMode = "both"
      /\ last.key \in LatticeKeys(allEdges) )
    => /\ Len(allEdges) = 6
       /\ edgesToToggle[1] = last.key
       /\ Range(edgesToToggle) = SingleHexGroup(last.key)
       /\ Len(edgesToToggle) = Cardinality(SingleHexGroup(last.key))

\* C3 (as stated): in the single pointy-top hexagon, the result in mode
\* 'both' holds only the input key.
C3_OnlyInputKey ==
    ( /\ SingleHexPointy
      /\ pc = "mirrored"
      /\ mirrorMode = "both"
      /\ last.key \in LatticeKeys(allEdges) )
    => edgesToToggle = <<last.key>>

\* C3: the resolver has returned four keys for the edge 0|1 of the single hexagon.
C3_SingleHexagonResolved ==
    /\ SingleHexPointy
    /\ pc = "mirrored"
    /\ mirrorMode = "both"
    /\ last.key = Key(0, 1)
    /\ Len(edgesToToggle) = 4

\* C4 (amended): the pointy-top lattice of 2 columns (even and odd rows) and
\* 2 rows has exactly 16 vertices, at 16 distinct positions.
C4_SixteenVertices ==
    TwoByTwoPointy =>
        /\ Len(vertices) = 16
        /\ Cardinality({<<vertices[i].x, vertices[i].y>> : i \in 1..Len(vertices)}) = 16

\* C4 (as stated): that lattice has exactly 12 vertices.
C4_TwelveVertices == TwoByTwoPointy => Len(vertices) = 12

\* C4: the 2 x 2 pointy-top lattice has been built.
C4_TwoByTwoBuilt == TwoByTwoPointy /\ pc = "built" /\ Len(vertices) > 0

\* C5: the pointy-top lattice of 2 columns (even and odd rows) and 2 rows has
\* exactly 19 edges, with 19 distinct keys.
C5_NineteenEdges ==
    TwoByTwoPointy =>
        /\ Len(allEdges) = 19
        /\ Cardinality(LatticeKeys(allEdges)) = 19

\* C5: the 2 x 2 pointy-top lattice has been built, with its edges.
C5_TwoByTwoEdgesBuilt == TwoByTwoPointy /\ pc = "built" /\ Len(allEdges) > 0

\* C6 (as stated): toggleEdge with a key that is not a key of the current
\* lattice leaves the stored key list and the exposed set unchanged.
C6_InvalidKeyIsNoOp ==
    [][ (ToggleStep /\ last'.key \notin LatticeKeys(allEdges))
        => /\ enabledEdgesArray' = enabledEdgesArray
           /\ validEnabledEdges' = validEnabledEdges ]_vars

\* C6: a state after toggleEdge with a key that is not a lattice key, in
\* which the stored list holds that key.
C6_InvalidKeyStored ==
    /\ last.op = "toggleEdge"
    /\ last.key \notin LatticeKeys(allEdges)
    /\ last.key \in Range(enabledEdgesArray)

\* C7: in every state the exposed enabled-edge set is the set of stored keys
\* intersected with the keys of the current lattice.
C7_ExposedIsStoredInLattice ==
    pc = "hook" =>
        validEnabledEdges = Range(enabledEdgesArray) \cap LatticeKeys(allEdges)

\* C7: a design has been loaded whose stored list holds a key of the lattice
\* and a key that is not one.
C7_UnknownKeyFiltered ==
    /\ pc = "hook"
    /\ last.op = "loadDesignState"
    /\ Range(enabledEdgesArray) \ LatticeKeys(allEdges) # {}
    /\ validEnabledEdges # {}

\* C8: the result of getMirroredEdges contains the input key, and after
\* toggleEdge(k) the membership of k in the stored list (and, for a lattice
\* key, in the exposed set) is the opposite of what it was.
C8_ClickedEdgeFlips ==
    last.op = "toggleEdge" =>
        /\ last.key \in Range(edgesToToggle)
        /\ (last.key \in Range(enabledEdgesArray)) # last.wasEnabled
        /\ last.key \in LatticeKeys(allEdges)
             => (last.key \in validEnabledEdges) # last.wasEnabled

\* C8: a lattice edge has been toggled on in mode horizontal while its
\* H-image did not resolve.
C8_FlippedWithNoImage ==
    /\ last.op = "toggleEdge"
    /\ mirrorMode = "horizontal"
    /\ last.key \in LatticeKeys(allEdges)
    /\ Images(last.key, "H") = {}
    /\ edgesToToggle = <<last.key>>
    /\ last.key \in validEnabledEdges

\* C9: for a lattice edge key k the result of getMirroredEdges is k together
\* with the resolved images of k under the transforms of the mode (none: no
\* transform; horizontal: H; vertical: V; radial: HV; both: H, V and HV), no
\* key twice; and the result for 'both' is the union of the results for
\* 'horizontal', 'vertical' and 'radial'.
C9_ModeToTransforms ==
    (pc = "mirrored" /\ last.key \in LatticeKeys(allEdges)) =>
        /\ Range(edgesToToggle)
             = {last.key} \cup UNION {Images(last.key, t) : t \in Transforms(mirrorMode)}
        /\ Len(edgesToToggle) = Cardinality(Range(edgesToToggle))
        /\ mirrorMode = "both" =>
             Range(edgesToToggle)
               = GroupUnder("horizontal") \cup GroupUnder("vertical") \cup GroupUnder("radial")

\* C9: in a lattice of several hexagons, mode both has returned the key and
\* three images, the H-image differing from the HV-image.
C9_FourImagesReached ==
    /\ pc = "mirrored"
    /\ mirrorMode = "both"
    /\ last.key \in LatticeKeys(allEdges)
    /\ Len(allEdges) > 6
    /\ Len(edgesToToggle) = 4
    /\ Images(last.key, "H") # Images(last.key, "HV")

\* C10: every key getMirroredEdges returns, other than the input key, is the
\* key of an edge of the lattice.
C10_ImagesAreLatticeEdges ==
    pc = "mirrored" =>
        \A i \in 1..Len(edgesToToggle) :
            edgesToToggle[i] # last.key => edgesToToggle[i] \in LatticeKeys(allEdges)

\* C10: in mode both, none of the three images of a lattice edge resolved,
\* and the result is the input key alone.
C10_UnresolvedImageOmitted ==
    /\ pc = "mirrored"
    /\ mirrorMode = "both"
    /\ last.key \in LatticeKeys(allEdges)
    /\ \A t \in Transforms("both") : Images(last.key, t) = {}
    /\ edgesToToggle = <<last.key>>

\* The vertex identifiers of the lattice, as the strings the code uses
VertexKeys == {vertices[i].key : i \in 1..Len(vertices)}

\* C11: for all vertex identifiers a, b, c, d of the lattice,
\* getEdgeKey(a, b) = getEdgeKey(b, a), and getEdgeKey(a, b) = getEdgeKey(c, d)
\* exactly when {a, b} = {c, d}.
C11_EdgeKeyIdentity ==
    pc = "built" =>
        /\ \A a \in VertexKeys, b \in VertexKeys : getEdgeKey(a, b) = getEdgeKey(b, a)
        /\ \A a \in VertexKeys, b \in VertexKeys :
             LET k == getEdgeKey(a, b)
             IN  \A c \in VertexKeys, d \in VertexKeys :
                    (k = getEdgeKey(c, d)) = ({a, b} = {c, d})

\* C11: a lattice has been built whose identifiers have one and two digits.
C11_TwoDigitIdsBuilt ==
    /\ pc = "built"
    /\ StringOf(9) \in VertexKeys
    /\ StringOf(10) \in VertexKeys

\* The numeric identifiers of the lattice
VertexIds == 0..(Len(vertices) - 1)

\* For identifiers below 100: the decimal string of i sorts before that of j.
\* With equally many digits that is i < j; a one-digit i sorts before a
\* two-digit j exactly when i is at most the leading digit of j.
SortsBefore(i, j) ==
    \/ (i < 10) = (j < 10) /\ i < j
    \/ i < 10 /\ j >= 10 /\ i <= j \div 10
    \/ i >= 10 /\ j < 10 /\ i \div 10 < j

\* C12 (amended): the canonical key of two distinct identifiers puts first the
\* one whose decimal string sorts first: the smaller number when both have
\* the same number of digits, otherwise by leading digits (9 and 10 give
\* "10|9", 1 and 10 give "1|10"); every edge of the lattice has that key.
C12_StringOrderedKey ==
    (pc = "built" /\ Len(vertices) <= 100) =>
        /\ \A i \in VertexIds, j \in VertexIds :
              i # j => getEdgeKey(StringOf(i), StringOf(j))
                         = IF SortsBefore(i, j) THEN Key(i, j) ELSE Key(j, i)
        /\ \A n \in 1..Len(allEdges) :
              allEdges[n].key = getEdgeKey(allEdges[n].v1, allEdges[n].v2)

\* C12 (as stated): the canonical key of two identifiers is
\* "<smaller>|<larger>".
C12_SmallerNumberFirst ==
    pc = "built" =>
        \A i \in VertexIds, j \in VertexIds :
            i < j => getEdgeKey(StringOf(i), StringOf(j)) = Key(i, j)

\* C12: a lattice has been built with an edge whose key has the larger
\* number first.
C12_LargerNumberFirstEdge ==
    /\ pc = "built"
    /\ \E n \in 1..Len(allEdges), i \in VertexIds, j \in VertexIds :
          i < j /\ allEdges[n].key = Key(j, i)

\* C13: the four counts getGridDimensions returns are integers of at least 1,
\* for every requested size, including sizes smaller than one hexagon.
C13_CountsAtLeastOne ==
    (pc \in {"solved", "built", "mirrored"} /\ width > 0) =>
        /\ gridDimensions.cols \in Nat \ {0}
        /\ gridDimensions.colsOdd \in Nat \ {0}
        /\ gridDimensions.rows \in Nat \ {0}
        /\ gridDimensions.rowsOdd \in Nat \ {0}

\* C13: the counts have been computed for a request smaller than one hexagon
\* (width below sqrt(3) * spacing and length below 2 * spacing).
C13_SmallerThanOneHexagon ==
    /\ pc = "solved"
    /\ pointyTop
    /\ width * width < 3 * spacing * spacing
    /\ length < 2 * spacing
    /\ gridDimensions.cols = 1
    /\ gridDimensions.rows = 1

\* The extent of the vertex map along each axis, in lattice units
SpanX(vmap) ==
    SetMax({vmap[i].x : i \in 1..Len(vmap)}) - SetMin({vmap[i].x : i \in 1..Len(vmap)})

SpanY(vmap) ==
    SetMax({vmap[i].y : i \in 1..Len(vmap)}) - SetMin({vmap[i].y : i \in 1..Len(vmap)})

\* C14 (as stated): the span of the vertex X coordinates of the lattice
\* generated from the returned counts equals actualWidth, and the span of the
\* vertex Y coordinates equals actualLength.
C14_ActualSizeIsExtent ==
    (pc \in {"built", "mirrored"} /\ width > 0) =>
        /\ SpanX(vertices) = gridDimensions.actualWidth
        /\ SpanY(vertices) = gridDimensions.actualLength

\* C14: a pointy-top lattice has been built, inside the requested size, whose
\* offset rows reach half a hexagon beyond actualWidth.
C14_OffsetRowBeyondActualWidth ==
    /\ pc = "built"
    /\ width > 0
    /\ pointyTop
    /\ gridDimensions.actualWidth = 4 * gridDimensions.cols
    /\ SpanX(vertices) = gridDimensions.actualWidth + 2
    /\ SpanY(vertices) = gridDimensions.actualLength
    /\ BoxWithin(vertices, spacing, width, length, pointyTop)

\* A lattice generateGrid has produced from the counts in gridDimensions
Generated == pc = "built" /\ gridDimensions.cols >= 1

\* The number of edges of the full edge list that end at the vertex k
Degree(k) ==
    Cardinality({n \in 1..Len(allEdges) : allEdges[n].v1 = k \/ allEdges[n].v2 = k})

\* C15: in every generated lattice every vertex is an end point of at most 3
\* edges of the full edge list.
C15_DegreeAtMostThree ==
    Generated => \A k \in VertexKeys : Degree(k) <= 3

\* C15: a lattice has been generated, from counts with more cells in the odd
\* rows than in the even ones, that has a vertex of degree 3 and one of
\* degree 2.
C15_DegreeThreeReached ==
    /\ Generated
    /\ gridDimensions.colsOdd > gridDimensions.cols
    /\ \E k \in VertexKeys : Degree(k) = 3
    /\ \E k \in VertexKeys : Degree(k) = 2

\* The cells of the generated lattice and the corners of each
Cells == generateHexCenters(gridDimensions.cols, gridDimensions.colsOdd,
                            gridDimensions.rows, gridDimensions.rowsOdd,
                            pixelSize, pointyTop)

CellCorners(h) == getHexVertices(Cells[h].x, Cells[h].y, pixelSize, pointyTop)

\* The keys of the vertices at a point, and of the edges joining two points
KeysAt(q) == {vertices[i].key : i \in {j \in 1..Len(vertices) :
                                         vertices[j].x = q.x /\ vertices[j].y = q.y}}

EdgesBetween(q1, q2) ==
    {allEdges[n].key : n \in {m \in 1..Len(allEdges) :
        \E k1 \in KeysAt(q1), k2 \in KeysAt(q2) :
            {allEdges[m].v1, allEdges[m].v2} = {k1, k2}}}

\* The keys of the edges along the six sides of cell h
CellSides(h) ==
    UNION {EdgesBetween(CellCorners(h)[i], CellCorners(h)[(i % 6) + 1]) : i \in 1..6}

\* C16: in every generated lattice each cell resolves to 6 distinct vertices
\* and 6 distinct edges, one along each side from corner to next corner and
\* back to the first, and every edge of the edge list is a side of exactly 1
\* or exactly 2 cells.
C16_HexClosure ==
    Generated =>
        /\ \A h \in 1..Len(Cells) :
              /\ \A i \in 1..6 : Cardinality(KeysAt(CellCorners(h)[i])) = 1
              /\ Cardinality(UNION {KeysAt(CellCorners(h)[i]) : i \in 1..6}) = 6
              /\ \A i \in 1..6 :
                    Cardinality(EdgesBetween(CellCorners(h)[i],
                                             CellCorners(h)[(i % 6) + 1])) = 1
              /\ Cardinality(CellSides(h)) = 6
        /\ \A n \in 1..Len(allEdges) :
              Cardinality({h \in 1..Len(Cells) : allEdges[n].key \in CellSides(h)}) \in {1, 2}
        /\ Len(allEdges) = Cardinality(LatticeKeys(allEdges))

\* C16: a lattice has been generated with an edge shared by 2 cells and an
\* edge of 1 cell.
C16_SharedAndBoundaryEdges ==
    /\ Generated
    /\ \E n \in 1..Len(allEdges) :
          Cardinality({h \in 1..Len(Cells) : allEdges[n].key \in CellSides(h)}) = 2
    /\ \E n \in 1..Len(allEdges) :
          Cardinality({h \in 1..Len(Cells) : allEdges[n].key \in CellSides(h)}) = 1

\* The corners of all cells in generation order, as points
CornerPoints ==
    LET corners == AllCorners(Cells, pixelSize, pointyTop)
    IN  [n \in 1..Len(corners) |-> <<corners[n].x, corners[n].y>>]

\* C17: in every generated lattice no two vertices are at the same point
\* (lattice points are at least half a hexagon size apart, so "within 0.01"
\* is "at the same point"); the vertices are the distinct corner points in the
\* order of their first occurrence, numbered from 0; hence every corner maps
\* to the first-discovered vertex at its point and no two distinct points are
\* merged.
C17_VertexDeduplication ==
    Generated =>
        /\ \A i \in 1..Len(vertices), j \in 1..Len(vertices) :
              i # j => ~(vertices[i].x = vertices[j].x /\ vertices[i].y = vertices[j].y)
        /\ [n \in 1..Len(vertices) |-> <<vertices[n].x, vertices[n].y>>] = Dedup(CornerPoints)
        /\ \A n \in 1..Len(vertices) : vertices[n].key = StringOf(n - 1)
        /\ {<<vertices[n].x, vertices[n].y>> : n \in 1..Len(vertices)} = Range(CornerPoints)

\* C17: a lattice has been generated in which corners of different cells were
\* merged: fewer vertices than corners.
C17_CornersMerged ==
    /\ Generated
    /\ Len(Cells) >= 3
    /\ Len(vertices) < Len(CornerPoints)
    /\ Len(vertices) > 6

\* The mirror axes of the vertex map of the state
Axes == calculateMirrorAxes(vertices, pointyTop, pixelSize)

\* The vertex coordinates on each axis
XCoords == {vertices[i].x : i \in 1..Len(vertices)}

YCoords == {vertices[i].y : i \in 1..Len(vertices)}

\* a and b are consecutive distinct coordinates of S
Consecutive(S, a, b) == a \in S /\ b \in S /\ a < b /\ ~\E c \in S : a < c /\ c < b

\* The largest gap between consecutive coordinates of S (0 if there is none)
LargestGap(S) ==
    LET gaps == {q[2] - q[1] : q \in {r \in S \X S : Consecutive(S, r[1], r[2])}}
    IN  IF gaps = {} THEN 0 ELSE SetMax(gaps)

\* c is the midpoint of two consecutive coordinates of S whose gap exceeds 70%
\* of the largest gap
LargeGapMidpoint(S, c) ==
    \E a \in S, b \in S :
        /\ Consecutive(S, a, b)
        /\ 10 * (b - a) > 7 * LargestGap(S)
        /\ 2 * c = a + b

\* C18: for every generated pointy-top lattice centerX is the X coordinate of
\* a vertex and centerY is the midpoint of two consecutive distinct vertex Y
\* coordinates whose gap exceeds 70% of the largest Y gap, and no vertex Y
\* coordinate; for flat-top with X and Y swapped.
C18_AxisValidity ==
    Generated =>
        IF pointyTop
        THEN /\ Axes.centerX \in XCoords
             /\ LargeGapMidpoint(YCoords, Axes.centerY)
             /\ Axes.centerY \notin YCoords
        ELSE /\ Axes.centerY \in YCoords
             /\ LargeGapMidpoint(XCoords, Axes.centerX)
             /\ Axes.centerX \notin XCoords

\* C18: axes have been computed for a generated pointy-top lattice of two rows,
\* where the centre of the extent on Y is a vertex coordinate or the midpoint
\* of a small gap, so that centerY is not the centre of the extent.
C18_AxisSnapped ==
    /\ Generated
    /\ pointyTop
    /\ gridDimensions.rows = 2
    /\ 2 * Axes.centerY # Axes.minY + Axes.maxY

\* The valid positions of each axis, as the code collects them
ValidX == Range(ValidPositions(SortedSeq(XCoords), pointyTop))

ValidY == Range(ValidPositions(SortedSeq(YCoords), ~pointyTop))

\* c is, among the valid positions, the smallest of those nearest to the
\* midpoint of lo and hi (distances doubled, to stay in integers)
NearestSmallest(valid, c, lo, hi) ==
    /\ c \in valid
    /\ \A q \in valid :
          /\ Abs(2 * c - (lo + hi)) <= Abs(2 * q - (lo + hi))
          /\ Abs(2 * c - (lo + hi)) = Abs(2 * q - (lo + hi)) => c <= q

\* C19: on each axis of a generated lattice calculateMirrorAxes returns the
\* valid position nearest to the raw centre (the midpoint of the least and
\* the greatest coordinate), and among several at that distance the smallest.
C19_AxisSelection ==
    Generated =>
        /\ NearestSmallest(ValidX, Axes.centerX, Axes.minX, Axes.maxX)
        /\ NearestSmallest(ValidY, Axes.centerY, Axes.minY, Axes.maxY)
        /\ Axes.minX = SetMin(XCoords) /\ Axes.maxX = SetMax(XCoords)
        /\ Axes.minY = SetMin(YCoords) /\ Axes.maxY = SetMax(YCoords)

\* C19: axes have been computed for a generated lattice in which two valid X
\* positions are equally near to the raw centre, and centerX is the smaller.
C19_TieBrokenToSmaller ==
    /\ Generated
    /\ \E q \in ValidX :
          /\ q > Axes.centerX
          /\ Abs(2 * q - (Axes.minX + Axes.maxX))
               = Abs(2 * Axes.centerX - (Axes.minX + Axes.maxX))

\* Number.isFinite on a value of the model
IsFinite(v) == ToString(v) \notin {ToString(NaN), ToString(PosInfinity), ToString(NegInfinity)}

\* The axis has no valid position
NoValidX == Len(vertices) = 0 \/ ValidX = {}

NoValidY == Len(vertices) = 0 \/ ValidY = {}

\* A vertex map that generateGrid has not produced
HandMade == pc \in {"built", "mirrored"} /\ gridDimensions = NoDimensions

\* C20 (amended): on a vertex map with at least one vertex, an axis with no
\* valid position gets the raw centre (the midpoint of the least and the
\* greatest coordinate), and both centres are finite numbers; on the empty map
\* both centres are NaN; getMirroredEdges on such a map returns the input key
\* alone.
C20_DegenerateFallback ==
    HandMade =>
        /\ Len(vertices) = 0 => Axes.centerX = NaN /\ Axes.centerY = NaN
        /\ Len(vertices) > 0 =>
              /\ NoValidX => 2 * Axes.centerX = Axes.minX + Axes.maxX
              /\ NoValidY => 2 * Axes.centerY = Axes.minY + Axes.maxY
              /\ IsFinite(Axes.centerX) /\ IsFinite(Axes.centerY)
        /\ pc = "mirrored" => edgesToToggle = <<last.key>>

\* C20 (as stated): when an axis has no valid position the centre returned
\* for it is finite.
C20_FallbackIsFinite ==
    HandMade =>
        /\ NoValidX => IsFinite(Axes.centerX)
        /\ NoValidY => IsFinite(Axes.centerY)

\* C20: getMirroredEdges has been called in mode 'both' on the single-vertex
\* map with the key 0|0, whose end points both resolve; the Y axis had no
\* valid position.
C20_SingleVertexResolved ==
    /\ HandMade
    /\ pc = "mirrored"
    /\ Len(vertices) = 1
    /\ pointyTop
    /\ mirrorMode = "both"
    /\ last.key = Key(0, 0)
    /\ ValidY = {}
    /\ Axes.centerY = vertices[1].y

\* The number of enabled edges of the lattice that end at the vertex key v
EnabledDegree(v) ==
    Cardinality({j \in 1..Len(allEdges) :
                    allEdges[j].key \in validEnabledEdges
                    /\ v \in {allEdges[j].v1, allEdges[j].v2}})

\* The vertex keys whose enabled degree satisfies a test
VerticesOfDegree(Test(_)) == {v \in VertexKeys : Test(EnabledDegree(v))}

\* C21 (as stated): segments is the size of the enabled set; the vertices
\* with exactly one enabled edge are counted as joints1, those with exactly
\* two as joints2, those with three or more as joints3, and a vertex with no
\* enabled edge has no entry in jointCounts.
C21_JointClassification ==
    pc = "hook" =>
        /\ stats.segments = Cardinality(validEnabledEdges)
        /\ stats.joints2 = Cardinality(VerticesOfDegree(LAMBDA d : d = 2))
        /\ stats.joints3 = Cardinality(VerticesOfDegree(LAMBDA d : d >= 3))
        /\ DOMAIN stats.jointCounts = VerticesOfDegree(LAMBDA d : d >= 1)
        /\ VerticesOfDegree(LAMBDA d : d = 1) # {} =>
             /\ "joints1" \in DOMAIN stats
             /\ stats.joints1 = Cardinality(VerticesOfDegree(LAMBDA d : d = 1))

\* C21: a state with a vertex of enabled degree 1, recorded with count 1 in
\* jointCounts, while the statistics have no property joints1.
C21_DeadEndNotCounted ==
    /\ pc = "hook"
    /\ \E v \in DOMAIN stats.jointCounts : stats.jointCounts[v] = 1
    /\ "joints1" \notin DOMAIN stats

\* C22 (as stated): in every state of the application the width and the
\* length held by the hook are within the range the Create New form accepts
\* (24 to 600 in) and the spacing is within 6 to 48 in.
C22_LoadedDimensionsInRange ==
    pc = "app" =>
        /\ isValidDimension(width, minDim, maxDim)
        /\ isValidDimension(length, minDim, maxDim)
        /\ isValidDimension(spacing, minSpacing, maxSpacing)

\* C22: a stored record whose width is below the range has been loaded, and
\* the hook holds that width.
C22_OutOfRangeLoaded ==
    /\ pc = "app"
    /\ last.op = "handleLoad"
    /\ last.key = OldName
    /\ width = loadDesigns[OldName].widthInches
    /\ ~isValidDimension(width, minDim, maxDim)

\* C23: when a name saved earlier in the run is loaded, whatever was toggled
\* or configured in between, the width, length, spacing, orientation, mirror
\* mode, stored edge list and the three limits are the values they had when
\* that name was last saved.
C23_SaveLoadRoundTrip ==
    (pc = "app" /\ last.op = "handleLoad" /\ last.key \in DOMAIN savedFrom)
        => HookState = savedFrom[last.key]

\* C23: a name saved in the run has been loaded in a state whose enabled
\* edges differed from the saved ones, and the load has changed them back.
C23_LoadedAfterChange ==
    /\ pc = "app"
    /\ last.op = "handleLoad"
    /\ last.key \in DOMAIN savedFrom
    /\ last.before # validEnabledEdges
    /\ enabledEdgesArray = savedFrom[last.key][6]

\* The statistic, counted on the exposed set and the lattice, and the
\* maximum of each limit
LimitPairs ==
    [segments |-> <<Cardinality(validEnabledEdges), maxSegments>>,
     joints2  |-> <<Cardinality(VerticesOfDegree(LAMBDA d : d = 2)), maxJoints2>>,
     joints3  |-> <<Cardinality(VerticesOfDegree(LAMBDA d : d >= 3)), maxJoints3>>]

\* C24: in every state each flag of limitsExceeded is true exactly when its
\* maximum is greater than 0 and the statistic is strictly greater than the
\* maximum; with a maximum of 0 the flag is false.
C24_LimitWarnings ==
    pc = "app" =>
        \A f \in DOMAIN LimitPairs :
            /\ limitsExceeded[f] <=> (LimitPairs[f][2] > 0 /\ LimitPairs[f][1] > LimitPairs[f][2])
            /\ LimitPairs[f][2] = 0 => ~limitsExceeded[f]

\* C24: a state in which one limit is exceeded and flagged, another
\* statistic equals its positive maximum and is not flagged, and a third
\* maximum is 0 while its statistic is positive.
C24_FlaggedReachedAndUnlimited ==
    /\ pc = "app"
    /\ \E f, g, h \in DOMAIN LimitPairs :
          /\ limitsExceeded[f]
          /\ LimitPairs[g][2] > 0 /\ LimitPairs[g][1] = LimitPairs[g][2] /\ ~limitsExceeded[g]
          /\ LimitPairs[h][2] = 0 /\ LimitPairs[h][1] > 0 /\ ~limitsExceeded[h]

\* The lattices of the drawing sessions, by the arguments of generateGrid
DrawDeps ==
    { GridDeps(getGridDimensions(w, l, s, o), o) :
        w \in DrawWidths, l \in DrawLengths, s \in FormSpacings, o \in BOOLEAN }

\* getMirroredEdges(k, mode, ...) for every lattice of a drawing session,
\* every mode and every key of the lattice, computed once
GroupTable ==
    LET table == [deps \in DrawDeps, mode \in MirrorModes |->
                    LET grid == GridMemo[deps]
                    IN  [k \in LatticeKeys(grid.edges) |->
                           Range(getMirroredEdges(k, mode, deps[1], deps[3], deps[6],
                                                  grid.vertices, grid.edges))]]
    IN  IF table = table THEN table ELSE table

\* The keys getMirroredEdges returns for the lattice key k in the current
\* lattice and mode
MirrorGroup(k) == GroupTable[GridDeps(gridDimensions, pointyTop), mirrorMode][k]

\* C25: in a drawing session (lattice and mirror mode fixed, design empty at
\* the start, clicks on lattice edges only) the enabled set is closed under
\* the mirror mapping: with every enabled key k, every key of
\* getMirroredEdges(k, mode) is enabled.
C25_SymmetryInvariant ==
    pc = "draw" =>
        \A k \in validEnabledEdges : MirrorGroup(k) \subseteq validEnabledEdges

\* C25: after a click that turned a group off, a group of two or more keys
\* is still enabled.
C25_GroupLeftEnabled ==
    /\ pc = "draw"
    /\ last.op = "toggleEdge"
    /\ last.wasEnabled
    /\ \E k \in validEnabledEdges : Cardinality(MirrorGroup(k)) >= 2

\* The keys getMirroredEdges returns for k under the mode of the last call
GroupOf(k) ==
    Range(getMirroredEdges(k, mirrorMode, gridDimensions.cols, gridDimensions.rows,
                           pointyTop, vertices, allEdges))

\* C26: for a lattice edge key k1 and every key k2 that getMirroredEdges
\* returns for k1, getMirroredEdges returns for k2 the same set of keys.
C26_MirrorGroupsConsistent ==
    (pc = "mirrored" /\ last.key \in LatticeKeys(allEdges)) =>
        \A k2 \in Range(edgesToToggle) : GroupOf(k2) = Range(edgesToToggle)

\* C26: in a lattice of several hexagons a group of three or more keys has
\* been returned in mode both, and another key of the group gives the same
\* group.
C26_GroupOfImageAgrees ==
    /\ pc = "mirrored"
    /\ mirrorMode = "both"
    /\ last.key \in LatticeKeys(allEdges)
    /\ Len(allEdges) > 6
    /\ Len(edgesToToggle) >= 3
    /\ \E k2 \in Range(edgesToToggle) : k2 # last.key /\ GroupOf(k2) = Range(edgesToToggle)

\* C27: a call toggleEdge(k) leaves every key that getMirroredEdges returned
\* for k in the stored list if k was not in it before the call, and out of
\* it if k was (whatever the key's own membership was); for the keys of the
\* lattice the same holds of the exposed set; and every other key is in the
\* stored list after the call exactly if it was before.
C27_ToggleEffectAndFrame ==
    [][ ToggleStep =>
          LET group  == Range(edgesToToggle')
              before == Range(enabledEdgesArray)
              after  == Range(enabledEdgesArray')
          IN  /\ last'.wasEnabled = (last'.key \in before)
              /\ \A key \in group : (key \in after) = ~last'.wasEnabled
              /\ \A key \in group \cap LatticeKeys(allEdges') :
                     (key \in validEnabledEdges') = ~last'.wasEnabled
              /\ \A key \in (before \cup after) \ group : (key \in after) = (key \in before)
              /\ \A key \in LatticeKeys(allEdges') \ group :
                     (key \in validEnabledEdges') = (key \in validEnabledEdges) ]_vars

\* C27: an enabled key has been clicked while another key of its group was
\* disabled; the whole group is now disabled and a key outside the group is
\* still enabled.
C27_MixedGroupTurnedOff ==
    /\ pc = "hook"
    /\ last.op = "toggleEdge"
    /\ last.key \in LatticeKeys(allEdges)
    /\ last.wasEnabled
    /\ Range(edgesToToggle) \ last.before # {}
    /\ Range(edgesToToggle) \cap validEnabledEdges = {}
    /\ validEnabledEdges # {}

\* The two positions that the edge with a given key joins in a lattice
\* (empty if the lattice has no such edge)
EndPositions(key, vs, edges) ==
    LET ends == UNION {{edges[j].v1, edges[j].v2} : j \in {i \in 1..Len(edges) : edges[i].key = key}}
    IN  {<<v.x, v.y>> : v \in {u \in Range(vs) : u.key \in ends}}

\* C28: when a call leaves the stored list as it is and rebuilds the
\* lattice, every key that is reported as enabled before and after the call
\* joins the same two positions in the new lattice as in the old one.
C28_StableEdgeMeaning ==
    [][ enabledEdgesArray' = enabledEdgesArray =>
          \A key \in validEnabledEdges \cap validEnabledEdges' :
              EndPositions(key, vertices', allEdges') = EndPositions(key, vertices, allEdges) ]_vars

\* C28: a record with no edge list has been loaded, the lattice has been
\* rebuilt, and a key that was enabled before is still reported as enabled
\* although it joins two other positions than it did.
C28_KeyKeptAtOtherPlace ==
    /\ pc = "hook"
    /\ last.op = "loadDesignState"
    /\ last.deps # GridDeps(gridDimensions, pointyTop)
    /\ \E key \in last.before \cap validEnabledEdges :
           EndPositions(key, vertices, allEdges)
               # EndPositions(key, GridMemo[last.deps].vertices, GridMemo[last.deps].edges)

\* A call of handleSave with a blank text in the name field
BlankSaveStep ==
    /\ steps' = steps + 1
    /\ last'.op = "handleSave"
    /\ Trim(last'.typed) = <<>>

\* C29: handleSave with a blank name stores the design under a name that
\* was not present: the number of saved designs grows by one and every
\* earlier design is unchanged.
C29_BlankSaveNeverOverwrites ==
    [][ BlankSaveStep =>
          /\ last'.key \notin DOMAIN designs
          /\ Cardinality(DOMAIN designs') = Cardinality(DOMAIN designs) + 1
          /\ \A n \in DOMAIN designs :
                 n \in DOMAIN designs' /\ designs'[n] = designs[n] ]_vars

\* C29: a save with a blank name has replaced the record of a design that
\* was in the list.
C29_BlankSaveReplacedDesign ==
    /\ pc = "app"
    /\ last.op = "handleSave"
    /\ Trim(last.typed) = <<>>
    /\ last.present
    /\ designs[last.key].savedAt = steps

\* The sum of the values of a map of counts
RECURSIVE SumOfCounts(_)
SumOfCounts(counts) ==
    IF DOMAIN counts = {} THEN 0
    ELSE LET v == CHOOSE u \in DOMAIN counts : TRUE
         IN  counts[v] + SumOfCounts([u \in DOMAIN counts \ {v} |-> counts[u]])

\* C30: in every state of the hook the counts of jointCounts add up to
\* twice the number of segments, and no count is above 3.
C30_Handshake ==
    pc = "hook" =>
        /\ SumOfCounts(stats.jointCounts) = 2 * stats.segments
        /\ \A v \in DOMAIN stats.jointCounts : stats.jointCounts[v] <= 3

\* C30: the stored list holds a key that is not an edge of the lattice
\* beside enabled edges, two of which meet in a vertex.
C30_UnknownKeyBesideJoint ==
    /\ pc = "hook"
    /\ Range(enabledEdgesArray) \ LatticeKeys(allEdges) # {}
    /\ stats.segments >= 2
    /\ \E v \in DOMAIN stats.jointCounts : stats.jointCounts[v] >= 2

=============================================================================
